---- MODULE Spec2Model ----
(***************************************************************************)
(* State-machine model of the ARP scan coordinator (src/src/main.rs) and   *)
(* of the helpers of src/src/utils.rs it relies on.  The coordinator is    *)
(* the main thread; the response collector is the thread spawned at        *)
(* main.rs:124; the interrupt handler is the closure of main.rs:165.       *)
(* The module crate::network is not part of the sources at hand: the       *)
(* address iterator and the collector loop follow the specification text.  *)
(***************************************************************************)
EXTENDS Integers, Sequences, FiniteSets, TLC

(* ------------------------------ bounds --------------------------------- *)

MaxHostBits == 1
MaxTargets == 3
MaxRetry == 2
MaxWaits == 2
MaxInterval == 2
MaxPackets == 1
MaxDetails == 2

(* ------------------------- program constants --------------------------- *)

\* thread::sleep(Duration::from_millis(100)) in the wait loop
WaitIncrement == 100

VARIABLES
    ip_networks,          \* the target ranges (&[&IpNetwork])
    retry_count,          \* scan_options.retry_count
    timeout_ms,           \* scan_options.timeout_ms
    randomize_targets,    \* scan_options.randomize_targets
    pc,                   \* position of the coordinator (main thread)
    network_size,         \* result of compute_network_size
    interval_ms,          \* estimations.interval_ms
    handler_set,          \* the ctrlc handler is installed
    has_reached_timeout,  \* the interrupt flag (AtomicBool)
    timed_out,            \* the stop signal (AtomicBool)
    pass,                 \* outer loop counter of the send phase
    passes_started,       \* number of NetworkIterator passes begun
    ip_addresses,         \* items the current NetworkIterator still holds
    ip_address,           \* the item the inner loop is processing
    total_sent,           \* total_sent
    sent_to,              \* frames sent so far, per target address
    sleep_ms_mount,       \* sleep_ms_mount
    output,               \* what was written as the scan result
    cpc,                  \* position of the collector thread
    packet_count,         \* ResponseSummary.packet_count (being built)
    arp_count,            \* ResponseSummary.arp_count (being built)
    target_details,       \* discovered hosts (being built)
    start_recording,      \* clock value when collection began
    duration_ms,          \* ResponseSummary.duration_ms, once sealed
    clock,                \* elapsed milliseconds (lower bound of real time)
    last_send_at,         \* clock value of the latest send, -1 if none
    pacing_sleeps,        \* pacing sleeps taken since the latest send
    send_ended_at,        \* clock value when the send phase ended, -1 before
    at_interrupt          \* progress recorded when the flag was first set

vars == << ip_networks, retry_count, timeout_ms, randomize_targets, pc,
           network_size, interval_ms, handler_set, has_reached_timeout,
           timed_out, pass, passes_started, ip_addresses, ip_address,
           total_sent, sent_to, sleep_ms_mount, output, cpc, packet_count,
           arp_count, target_details, start_recording, duration_ms, clock,
           last_send_at, pacing_sleeps, send_ended_at, at_interrupt >>

options == << ip_networks, retry_count, timeout_ms, randomize_targets >>

collector == << cpc, packet_count, arp_count, target_details,
                start_recording, duration_ms >>

sendState == << pass, passes_started, ip_addresses, ip_address, total_sent,
                sent_to, last_send_at, pacing_sleeps, send_ended_at >>

(* ------------------------------ helpers -------------------------------- *)

RECURSIVE Pow2(_)
Pow2(n) == IF n = 0 THEN 1 ELSE 2 * Pow2(n - 1)

\* IpNetwork::size(): NetworkSize::V4(2^(32 - prefix)) or NetworkSize::V6(_)
NetworkSize(ip_network) ==
    IF ip_network.family = "V4"
    THEN [family |-> "V4", size |-> Pow2(32 - ip_network.prefix)]
    ELSE [family |-> "V6", size |-> 1]

V4Networks == [family : {"V4"}, prefix : (32 - MaxHostBits)..32]

V6Networks == [family : {"V6"}, prefix : {128}]

IpNetworks == V4Networks \cup V6Networks

RECURSIVE SumSizes(_)
SumSizes(networks) ==
    IF networks = << >> THEN 0
    ELSE NetworkSize(Head(networks)).size + SumSizes(Tail(networks))

\* One range, or two ranges of either family, of at most MaxTargets addresses.
NetworkLists ==
    { networks \in { << a >> : a \in IpNetworks }
                     \cup { << a, b >> : a, b \in IpNetworks } :
        SumSizes(networks) <= MaxTargets }

HasV6(networks) == \E i \in 1..Len(networks) : networks[i].family = "V6"

\* The fold with the accumulator dropped: the size of the last range.
RECURSIVE compute_network_size_fold_last(_, _)
compute_network_size_fold_last(total_size, networks) ==
    IF networks = << >> THEN [exited |-> FALSE, size |-> total_size]
    ELSE LET size == NetworkSize(Head(networks))
         IN  IF size.family = "V4"
             THEN compute_network_size_fold_last(size.size, Tail(networks))
             ELSE [exited |-> TRUE, size |-> 0]

\* The fold with the V6 arm adding nothing instead of ending the process.
RECURSIVE compute_network_size_fold_skip(_, _)
compute_network_size_fold_skip(total_size, networks) ==
    IF networks = << >> THEN [exited |-> FALSE, size |-> total_size]
    ELSE LET size == NetworkSize(Head(networks))
         IN  IF size.family = "V4"
             THEN compute_network_size_fold_skip(total_size + size.size, Tail(networks))
             ELSE compute_network_size_fold_skip(total_size, Tail(networks))

\* compute_network_size: fold over the ranges, adding the IPv4 sizes; the
\* first V6 range met ends the process (process::exit(1)), which the result
\* records as exited.
RECURSIVE compute_network_size_fold(_, _)
compute_network_size_fold(total_size, networks) ==
    IF networks = << >> THEN [exited |-> FALSE, size |-> total_size]
    ELSE LET size == NetworkSize(Head(networks))
         IN  IF size.family = "V4"
             THEN compute_network_size_fold(total_size + size.size, Tail(networks))
             ELSE [exited |-> TRUE, size |-> 0]

compute_network_size(networks) == compute_network_size_fold(0, networks)

\* The addresses of one range, lowest first.
RangeItems(networks, i) ==
    [k \in 1..NetworkSize(networks[i]).size |->
        [net |-> i, host |-> k - 1, family |-> networks[i].family]]

RECURSIVE Concat(_, _)
Concat(networks, i) ==
    IF i > Len(networks) THEN << >>
    ELSE RangeItems(networks, i) \o Concat(networks, i + 1)

\* NetworkIterator::new: the sequence of every address of every range.
NetworkIterator_new(networks) == Concat(networks, 1)

Targets(networks) ==
    { NetworkIterator_new(networks)[k] : k \in 1..Len(NetworkIterator_new(networks)) }

RemoveAt(s, k) == [j \in 1..(Len(s) - 1) |-> IF j < k THEN s[j] ELSE s[j + 1]]

\* Iterator::next: the head in sequential mode, any remaining item in
\* randomized mode (a permutation without repeats).
NextChoices(items, is_random) ==
    IF is_random THEN 1..Len(items) ELSE {1}

CeilDiv(a, b) == (a + b - 1) \div b

TimeoutChoices == {0, WaitIncrement * MaxWaits - 99, WaitIncrement * MaxWaits}

IntervalChoices == {0, MaxInterval}

RetryChoices == {0, 1, MaxRetry}

OutputFormat == {"Plain", "Json", "Yaml", "Csv"}

NoItem == [net |-> 0, host |-> 0, family |-> "none"]

NoOutput == [format |-> "none", packet_count |-> 0, arp_count |-> 0,
             duration_ms |-> 0, target_details |-> << >>]

NoInterrupt == [sent |-> -1, passes |-> -1, waits |-> -1, pc |-> "none"]

Alive == pc \notin {"done", "exit_failure"}

(* ------------------------------- Init ---------------------------------- *)

Init ==
    /\ ip_networks \in NetworkLists
    /\ retry_count \in RetryChoices
    /\ timeout_ms \in TimeoutChoices
    /\ randomize_targets \in BOOLEAN
    /\ pc = "channel"
    /\ network_size = 0
    /\ interval_ms = 0
    /\ handler_set = FALSE
    /\ has_reached_timeout = FALSE
    /\ timed_out = FALSE
    /\ pass = 0
    /\ passes_started = 0
    /\ ip_addresses = << >>
    /\ ip_address = NoItem
    /\ total_sent = 0
    /\ sent_to = [t \in Targets(ip_networks) |-> 0]
    /\ sleep_ms_mount = 0
    /\ output = NoOutput
    /\ cpc = "unspawned"
    /\ packet_count = 0
    /\ arp_count = 0
    /\ target_details = << >>
    /\ start_recording = 0
    /\ duration_ms = -1
    /\ clock = 0
    /\ last_send_at = -1
    /\ pacing_sleeps = 0
    /\ send_ended_at = -1
    /\ at_interrupt = NoInterrupt

(* ------------------- coordinator: src/src/main.rs ---------------------- *)

\* pnet_datalink::channel: the Ethernet channel, or a failure exit.
OpenChannel ==
    /\ pc = "channel"
    /\ \E opened \in BOOLEAN : pc' = IF opened THEN "spawn" ELSE "exit_failure"
    /\ UNCHANGED << options, network_size, interval_ms, handler_set,
                    has_reached_timeout, timed_out, sendState, sleep_ms_mount,
                    output, collector, clock, at_interrupt >>

\* The step of main.rs:123-126 without the spawn.
SpawnCollector_missing ==
    /\ pc = "spawn"
    /\ pc' = "size"
    /\ UNCHANGED << options, network_size, interval_ms, handler_set,
                    has_reached_timeout, timed_out, sendState, sleep_ms_mount,
                    output, collector, clock, at_interrupt >>

\* thread::spawn of receive_arp_responses.
SpawnCollector ==
    /\ pc = "spawn"
    /\ pc' = "size"
    /\ cpc' = "loop"
    /\ start_recording' = clock
    /\ UNCHANGED << options, network_size, interval_ms, handler_set,
                    has_reached_timeout, timed_out, sendState, sleep_ms_mount,
                    output, packet_count, arp_count, target_details,
                    duration_ms, clock, at_interrupt >>

\* let network_size = utils::compute_network_size(&ip_networks);
ComputeNetworkSize ==
    /\ pc = "size"
    /\ LET result == compute_network_size(ip_networks)
       IN  IF result.exited
           THEN pc' = "exit_failure" /\ UNCHANGED network_size
           ELSE pc' = "estimate" /\ network_size' = result.size
    /\ UNCHANGED << options, interval_ms, handler_set, has_reached_timeout,
                    timed_out, sendState, sleep_ms_mount, output, collector,
                    clock, at_interrupt >>

\* let estimations = network::compute_scan_estimation(..);
\* let interval_ms = estimations.interval_ms;
ComputeScanEstimation ==
    /\ pc = "estimate"
    /\ \E interval \in IntervalChoices : interval_ms' = interval
    /\ pc' = "handler"
    /\ UNCHANGED << options, network_size, handler_set, has_reached_timeout,
                    timed_out, sendState, sleep_ms_mount, output, collector,
                    clock, at_interrupt >>

\* ctrlc::set_handler(..).unwrap_or_else(.. process::exit(1))
SetHandler ==
    /\ pc = "handler"
    /\ \E installed \in BOOLEAN :
         IF installed
         THEN pc' = "source_ip" /\ handler_set' = TRUE
         ELSE pc' = "exit_failure" /\ UNCHANGED handler_set
    /\ UNCHANGED << options, network_size, interval_ms, has_reached_timeout,
                    timed_out, sendState, sleep_ms_mount, output, collector,
                    clock, at_interrupt >>

\* let source_ip = network::find_source_ip(..): a source address, or a
\* failure exit when none can be resolved.
FindSourceIp ==
    /\ pc = "source_ip"
    /\ \E found \in BOOLEAN : pc' = IF found THEN "outer" ELSE "exit_failure"
    /\ UNCHANGED << options, network_size, interval_ms, handler_set,
                    has_reached_timeout, timed_out, sendState, sleep_ms_mount,
                    output, collector, clock, at_interrupt >>

\* for _ in 0..scan_options.retry_count { if flag { break; } let ip_addresses
\* = NetworkIterator::new(..); .. }
OuterLoop ==
    /\ pc = "outer"
    /\ IF pass >= retry_count \/ has_reached_timeout
       THEN /\ pc' = "wait"
            /\ send_ended_at' = clock
            /\ UNCHANGED << passes_started, ip_addresses >>
       ELSE /\ pc' = "next"
            /\ passes_started' = passes_started + 1
            /\ ip_addresses' = NetworkIterator_new(ip_networks)
            /\ UNCHANGED send_ended_at
    /\ UNCHANGED << options, network_size, interval_ms, handler_set,
                    has_reached_timeout, timed_out, pass, ip_address,
                    total_sent, sent_to, last_send_at, pacing_sleeps,
                    sleep_ms_mount, output, collector, clock, at_interrupt >>

\* for ip_address in ip_addresses: the iterator's next item, or the end of
\* the pass.
IterNext ==
    /\ pc = "next"
    /\ IF ip_addresses = << >>
       THEN /\ pc' = "outer"
            /\ pass' = pass + 1
            /\ UNCHANGED << ip_addresses, ip_address >>
       ELSE \E k \in NextChoices(ip_addresses, randomize_targets) :
              /\ pc' = "check"
              /\ ip_address' = ip_addresses[k]
              /\ ip_addresses' = RemoveAt(ip_addresses, k)
              /\ UNCHANGED pass
    /\ UNCHANGED << options, network_size, interval_ms, handler_set,
                    has_reached_timeout, timed_out, passes_started,
                    total_sent, sent_to, last_send_at, pacing_sleeps, send_ended_at,
                    sleep_ms_mount, output, collector, clock, at_interrupt >>

\* The inner loop without its load of the interrupt flag.
InnerCheck_nocheck ==
    /\ pc = "check"
    /\ pc' = "send"
    /\ UNCHANGED << options, network_size, interval_ms, handler_set,
                    has_reached_timeout, timed_out, pass, passes_started,
                    ip_addresses, ip_address, total_sent, sent_to,
                    last_send_at, pacing_sleeps, send_ended_at, sleep_ms_mount,
                    output, collector, clock, at_interrupt >>

\* if has_reached_timeout.load(Ordering::Relaxed) { break; }
InnerCheck ==
    /\ pc = "check"
    /\ IF has_reached_timeout
       THEN pc' = "outer" /\ pass' = pass + 1
       ELSE pc' = "send" /\ UNCHANGED pass
    /\ UNCHANGED << options, network_size, interval_ms, handler_set,
                    has_reached_timeout, timed_out, passes_started,
                    ip_addresses, ip_address, total_sent, sent_to,
                    last_send_at, pacing_sleeps, send_ended_at, sleep_ms_mount, output,
                    collector, clock, at_interrupt >>

\* The send without the pacing sleep that follows it.
SendArpRequest_nosleep ==
    /\ pc = "send"
    /\ pc' = "next"
    /\ IF ip_address.family = "V4"
       THEN /\ total_sent' = total_sent + 1
            /\ sent_to' = [sent_to EXCEPT ![ip_address] = @ + 1]
            /\ last_send_at' = clock
            /\ pacing_sleeps' = 0
       ELSE UNCHANGED << total_sent, sent_to, last_send_at, pacing_sleeps >>
    /\ UNCHANGED << options, network_size, interval_ms, handler_set,
                    has_reached_timeout, timed_out, pass, passes_started,
                    ip_addresses, ip_address, send_ended_at, sleep_ms_mount,
                    output, collector, clock, at_interrupt >>

\* if let IpAddr::V4(ipv4_address) = ip_address { send_arp_request(..);
\* total_sent += 1; .. }
SendArpRequest ==
    /\ pc = "send"
    /\ IF ip_address.family = "V4"
       THEN /\ pc' = "sleep"
            /\ total_sent' = total_sent + 1
            /\ sent_to' = [sent_to EXCEPT ![ip_address] = @ + 1]
            /\ last_send_at' = clock
            /\ pacing_sleeps' = 0
       ELSE /\ pc' = "next"
            /\ UNCHANGED << total_sent, sent_to, last_send_at, pacing_sleeps >>
    /\ UNCHANGED << options, network_size, interval_ms, handler_set,
                    has_reached_timeout, timed_out, pass, passes_started,
                    ip_addresses, ip_address, send_ended_at, sleep_ms_mount, output,
                    collector, clock, at_interrupt >>

\* thread::sleep(Duration::from_millis(interval_ms));
PacingSleep ==
    /\ pc = "sleep"
    /\ pc' = "next"
    /\ clock' = clock + interval_ms
    /\ pacing_sleeps' = pacing_sleeps + 1
    /\ UNCHANGED << options, network_size, interval_ms, handler_set,
                    has_reached_timeout, timed_out, pass, passes_started,
                    ip_addresses, ip_address, total_sent, sent_to,
                    last_send_at, send_ended_at, sleep_ms_mount, output, collector,
                    at_interrupt >>

\* The wait loop leaving one increment early.
WaitCheck_short ==
    /\ pc = "wait"
    /\ pc' = IF ~has_reached_timeout /\ sleep_ms_mount + WaitIncrement < timeout_ms
             THEN "wait_sleep" ELSE "store"
    /\ UNCHANGED << options, network_size, interval_ms, handler_set,
                    has_reached_timeout, timed_out, sendState, sleep_ms_mount,
                    output, collector, clock, at_interrupt >>

\* The wait loop with <= in place of <.
WaitCheck_le ==
    /\ pc = "wait"
    /\ pc' = IF ~has_reached_timeout /\ sleep_ms_mount <= timeout_ms
             THEN "wait_sleep" ELSE "store"
    /\ UNCHANGED << options, network_size, interval_ms, handler_set,
                    has_reached_timeout, timed_out, sendState, sleep_ms_mount,
                    output, collector, clock, at_interrupt >>

\* The wait loop taking an interrupt for a failure.
WaitCheck_abort ==
    /\ pc = "wait"
    /\ pc' = IF has_reached_timeout THEN "exit_failure"
             ELSE IF sleep_ms_mount < timeout_ms THEN "wait_sleep" ELSE "store"
    /\ UNCHANGED << options, network_size, interval_ms, handler_set,
                    has_reached_timeout, timed_out, sendState, sleep_ms_mount,
                    output, collector, clock, at_interrupt >>

\* while !has_reached_timeout.load(..) && sleep_ms_mount < timeout_ms
WaitCheck ==
    /\ pc = "wait"
    /\ pc' = IF ~has_reached_timeout /\ sleep_ms_mount < timeout_ms
             THEN "wait_sleep" ELSE "store"
    /\ UNCHANGED << options, network_size, interval_ms, handler_set,
                    has_reached_timeout, timed_out, sendState, sleep_ms_mount,
                    output, collector, clock, at_interrupt >>

\* The wait increment without the addition to sleep_ms_mount.
WaitSleep_stuck ==
    /\ pc = "wait_sleep"
    /\ pc' = "wait"
    /\ UNCHANGED << options, network_size, interval_ms, handler_set,
                    has_reached_timeout, timed_out, sendState, sleep_ms_mount,
                    output, collector, clock, at_interrupt >>

\* thread::sleep(Duration::from_millis(100)); sleep_ms_mount += 100;
WaitSleep ==
    /\ pc = "wait_sleep"
    /\ pc' = "wait"
    /\ clock' = clock + WaitIncrement
    /\ sleep_ms_mount' = sleep_ms_mount + WaitIncrement
    /\ UNCHANGED << options, network_size, interval_ms, handler_set,
                    has_reached_timeout, timed_out, sendState, output,
                    collector, at_interrupt >>

\* timed_out.store(true, Ordering::Relaxed);
StoreTimedOut ==
    /\ pc = "store"
    /\ pc' = "join"
    /\ timed_out' = TRUE
    /\ UNCHANGED << options, network_size, interval_ms, handler_set,
                    has_reached_timeout, sendState, sleep_ms_mount, output,
                    collector, clock, at_interrupt >>

\* The join returning without waiting for the thread to end.
Join_nowait ==
    /\ pc = "join"
    /\ pc' = "output"
    /\ UNCHANGED << options, network_size, interval_ms, handler_set,
                    has_reached_timeout, timed_out, sendState, sleep_ms_mount,
                    output, collector, clock, at_interrupt >>

\* The join going on to the output whatever the thread's end.
Join_salvage ==
    /\ pc = "join"
    /\ cpc \in {"returned", "panicked"}
    /\ pc' = "output"
    /\ UNCHANGED << options, network_size, interval_ms, handler_set,
                    has_reached_timeout, timed_out, sendState, sleep_ms_mount,
                    output, collector, clock, at_interrupt >>

\* arp_responses.join().unwrap_or_else(.. process::exit(1)): blocks until
\* the collector thread has ended.
Join ==
    /\ pc = "join"
    /\ cpc \in {"returned", "panicked"}
    /\ pc' = IF cpc = "returned" THEN "output" ELSE "exit_failure"
    /\ UNCHANGED << options, network_size, interval_ms, handler_set,
                    has_reached_timeout, timed_out, sendState, sleep_ms_mount,
                    output, collector, clock, at_interrupt >>

\* match &scan_options.output { Plain => display_scan_results(..), Json =>
\* export_to_json(..), Yaml => export_to_yaml(..), Csv => export_to_csv(..) }
Output ==
    /\ pc = "output"
    /\ pc' = "done"
    /\ \E format \in OutputFormat :
         output' = [format |-> format,
                    packet_count |-> packet_count,
                    arp_count |-> arp_count,
                    duration_ms |-> duration_ms,
                    target_details |-> target_details]
    /\ UNCHANGED << options, network_size, interval_ms, handler_set,
                    has_reached_timeout, timed_out, sendState, sleep_ms_mount,
                    collector, clock, at_interrupt >>

\* The handler holding the clone of the stop signal instead of its own flag.
Interrupt_wrongflag ==
    /\ handler_set
    /\ Alive
    /\ timed_out' = TRUE
    /\ UNCHANGED << options, pc, network_size, interval_ms, handler_set,
                    has_reached_timeout, sendState, sleep_ms_mount, output,
                    collector, clock, at_interrupt >>

\* The ctrlc handler: cloned_reached_timeout.store(true, Ordering::Relaxed)
Interrupt ==
    /\ handler_set
    /\ Alive
    /\ has_reached_timeout' = TRUE
    /\ at_interrupt' = IF has_reached_timeout THEN at_interrupt
                       ELSE [sent |-> total_sent, passes |-> passes_started,
                             waits |-> sleep_ms_mount, pc |-> pc]
    /\ UNCHANGED << options, pc, network_size, interval_ms, handler_set,
                    timed_out, sendState, sleep_ms_mount, output, collector,
                    clock >>

(* ------------- collector thread: network::receive_arp_responses -------- *)

\* Option<String>: None is the empty sequence, Some(s) the sequence of s.
None == << >>

Some(value) == << value >>

\* The hosts that may answer on the segment, as TargetDetails.
Hosts ==
    { [ipv4 |-> << 10, 0, 0, 5 >>, mac |-> << 170, 187, 204, 0, 0, 1 >>,
       hostname |-> None, vendor |-> Some("Acme")] }

\* The loop head: the stop signal is checked before every read; once it is
\* observed the elapsed time is sealed and the results are returned.
CollectorCheck ==
    /\ cpc = "loop"
    /\ Alive
    /\ IF timed_out
       THEN cpc' = "returned" /\ duration_ms' = clock - start_recording
       ELSE cpc' = "read" /\ UNCHANGED duration_ms
    /\ UNCHANGED << options, pc, network_size, interval_ms, handler_set,
                    has_reached_timeout, timed_out, sendState, sleep_ms_mount,
                    output, packet_count, arp_count, target_details,
                    start_recording, clock, at_interrupt >>

\* A read that ends with the read timeout and no frame.
CollectorReadTimeout ==
    /\ cpc = "read"
    /\ Alive
    /\ cpc' = "loop"
    /\ UNCHANGED << options, pc, network_size, interval_ms, handler_set,
                    has_reached_timeout, timed_out, sendState, sleep_ms_mount,
                    output, packet_count, arp_count, target_details,
                    start_recording, duration_ms, clock, at_interrupt >>

\* A frame that is not an accepted ARP reply: counted, then discarded.
CollectorReadOther ==
    /\ cpc = "read"
    /\ Alive
    /\ packet_count < MaxPackets
    /\ cpc' = "loop"
    /\ packet_count' = packet_count + 1
    /\ UNCHANGED << options, pc, network_size, interval_ms, handler_set,
                    has_reached_timeout, timed_out, sendState, sleep_ms_mount,
                    output, arp_count, target_details, start_recording,
                    duration_ms, clock, at_interrupt >>

InDetails(details, host) ==
    \E i \in 1..Len(details) : details[i].ipv4 = host.ipv4

\* An accepted ARP reply: both counters move; the sender is recorded unless
\* it already is.
CollectorReadReply ==
    /\ cpc = "read"
    /\ Alive
    /\ packet_count < MaxPackets
    /\ cpc' = "loop"
    /\ packet_count' = packet_count + 1
    /\ arp_count' = arp_count + 1
    /\ \E host \in Hosts :
         target_details' = IF InDetails(target_details, host)
                           THEN target_details
                           ELSE Append(target_details, host)
    /\ UNCHANGED << options, pc, network_size, interval_ms, handler_set,
                    has_reached_timeout, timed_out, sendState, sleep_ms_mount,
                    output, start_recording, duration_ms, clock, at_interrupt >>

\* An unrecoverable failure inside the collector thread.
CollectorPanic ==
    /\ cpc = "read"
    /\ Alive
    /\ cpc' = "panicked"
    /\ UNCHANGED << options, pc, network_size, interval_ms, handler_set,
                    has_reached_timeout, timed_out, sendState, sleep_ms_mount,
                    output, packet_count, arp_count, target_details,
                    start_recording, duration_ms, clock, at_interrupt >>

(* --------------------------- specification ----------------------------- *)

Coordinator ==
    \/ OpenChannel
    \/ SpawnCollector
    \/ ComputeNetworkSize
    \/ ComputeScanEstimation
    \/ SetHandler
    \/ FindSourceIp
    \/ OuterLoop
    \/ IterNext
    \/ InnerCheck
    \/ SendArpRequest
    \/ PacingSleep
    \/ WaitCheck
    \/ WaitSleep
    \/ StoreTimedOut
    \/ Join
    \/ Output

Collector ==
    \/ CollectorCheck
    \/ CollectorReadTimeout
    \/ CollectorReadOther
    \/ CollectorReadReply
    \/ CollectorPanic

Next == Coordinator \/ Collector \/ Interrupt

Spec == Init /\ [][Next]_vars

\* Both threads keep being scheduled while they have a step to take.
\* The scans of one range and of at most MaxTargets frames in all.
InitLive ==
    /\ Init
    /\ Len(ip_networks) = 1
    /\ SumSizes(ip_networks) * retry_count <= MaxTargets

FairSpec ==
    InitLive /\ [][Next]_vars /\ WF_vars(Coordinator) /\ WF_vars(Collector)

(* ------------------- export: src/src/utils.rs -------------------------- *)

\* Ipv4Addr's ordering: the octets compared from the first on.
RECURSIVE OctetsLess(_, _)
OctetsLess(a, b) ==
    IF a = << >> \/ b = << >> THEN FALSE
    ELSE IF Head(a) # Head(b) THEN Head(a) < Head(b)
    ELSE OctetsLess(Tail(a), Tail(b))

Ipv4Leq(a, b) == ~OctetsLess(b, a)

\* The list with no sorting at all.
sort_by_key_none(details) == details

\* Where sort_by_key puts an item among items already sorted: behind every
\* item whose key is not greater (the sort is stable).
RECURSIVE InsertByKey(_, _)
InsertByKey(sorted, item) ==
    IF sorted = << >> THEN << item >>
    ELSE IF OctetsLess(item.ipv4, Head(sorted).ipv4)
         THEN << item >> \o sorted
         ELSE << Head(sorted) >> \o InsertByKey(Tail(sorted), item)

RECURSIVE SortPrefix(_, _)
SortPrefix(details, n) ==
    IF n = 0 THEN << >>
    ELSE InsertByKey(SortPrefix(details, n - 1), details[n])

\* target_details.sort_by_key(|item| item.ipv4)
sort_by_key(details) == SortPrefix(details, Len(details))

DecDigits == << "0", "1", "2", "3", "4", "5", "6", "7", "8", "9" >>

HexDigits == << "0", "1", "2", "3", "4", "5", "6", "7", "8", "9",
                "a", "b", "c", "d", "e", "f" >>

\* The decimal text of a number.
RECURSIVE Decimal(_)
Decimal(n) ==
    IF n < 10 THEN DecDigits[n + 1]
    ELSE Decimal(n \div 10) \o DecDigits[(n % 10) + 1]

\* format!("{}", detail.ipv4): the dotted decimal text.
FormatIpv4(ipv4) ==
    Decimal(ipv4[1]) \o "." \o Decimal(ipv4[2]) \o "."
        \o Decimal(ipv4[3]) \o "." \o Decimal(ipv4[4])

HexOctet(n) == HexDigits[(n \div 16) + 1] \o HexDigits[(n % 16) + 1]

\* format!("{}", detail.mac): six octets of two hex digits, colons between.
FormatMac(mac) ==
    HexOctet(mac[1]) \o ":" \o HexOctet(mac[2]) \o ":" \o HexOctet(mac[3])
        \o ":" \o HexOctet(mac[4]) \o ":" \o HexOctet(mac[5])
        \o ":" \o HexOctet(mac[6])

\* match &detail.hostname { Some(hostname) => hostname.clone(), None => "" }
OrEmpty(option) == IF option = None THEN "" ELSE option[1]

SerializableResultItem(detail) ==
    [ipv4 |-> FormatIpv4(detail.ipv4),
     mac |-> FormatMac(detail.mac),
     hostname |-> OrEmpty(detail.hostname),
     vendor |-> OrEmpty(detail.vendor)]

get_serializable_result(response_summary, details) ==
    [packet_count |-> response_summary.packet_count,
     arp_count |-> response_summary.arp_count,
     duration_ms |-> response_summary.duration_ms,
     results |-> [i \in 1..Len(details) |-> SerializableResultItem(details[i])]]

\* A serialized SerializableResultItem: its fields in declaration order.
ItemFields(item) ==
    << << "ipv4", item.ipv4 >>, << "mac", item.mac >>,
       << "hostname", item.hostname >>, << "vendor", item.vendor >> >>

\* A serialized SerializableGlobalResult: the three counters as numbers in
\* text, then the list of the items.
DocumentFields(global_result) ==
    << << "packet_count", Decimal(global_result.packet_count) >>,
       << "arp_count", Decimal(global_result.arp_count) >>,
       << "duration_ms", Decimal(global_result.duration_ms) >>,
       << "results", [i \in 1..Len(global_result.results) |->
                         ItemFields(global_result.results[i])] >> >>

export_to_json(response_summary, details) ==
    [format |-> "Json",
     document |-> DocumentFields(
         get_serializable_result(response_summary, sort_by_key(details))),
     records |-> << >>]

export_to_yaml(response_summary, details) ==
    [format |-> "Yaml",
     document |-> DocumentFields(
         get_serializable_result(response_summary, sort_by_key(details))),
     records |-> << >>]

CsvHeader == << "ipv4", "mac", "hostname", "vendor" >>

CsvRecord(item) == << item.ipv4, item.mac, item.hostname, item.vendor >>

\* The csv writer is given the items alone, one record each; it writes the
\* header record before the first of them.
export_to_csv(response_summary, details) ==
    LET global_result ==
            get_serializable_result(response_summary, sort_by_key(details))
    IN  [format |-> "Csv",
         document |-> << >>,
         records |->
             IF global_result.results = << >> THEN << >>
             ELSE << CsvHeader >>
                  \o [i \in 1..Len(global_result.results) |->
                         CsvRecord(global_result.results[i])]]

ExportIpv4Addrs == { << 10, 0, 0, 5 >>, << 10, 0, 0, 10 >>, << 9, 0, 1, 200 >> }

ExportMacAddrs == { << 170, 187, 204, 0, 0, 1 >>, << 0, 27, 68, 17, 58, 183 >> }

ExportTargetDetails ==
    [ipv4 : ExportIpv4Addrs, mac : ExportMacAddrs,
     hostname : {None, Some("router.lan")}, vendor : {None, Some("Acme")}]

\* The lists the collector can return: at most one entry for an address.
ExportDetailLists ==
    { details \in UNION { [1..n -> ExportTargetDetails] : n \in 0..MaxDetails } :
        \A i, j \in 1..Len(details) :
            details[i].ipv4 = details[j].ipv4 => i = j }

ResponseSummary ==
    [packet_count |-> packet_count, arp_count |-> arp_count,
     duration_ms |-> duration_ms]

scanState == << options, network_size, interval_ms, handler_set,
                has_reached_timeout, timed_out, sendState, sleep_ms_mount,
                collector, clock, at_interrupt >>

\* The coordinator at the match of main.rs:244, the join having returned
\* any (ResponseSummary, TargetDetails list).
InitExport ==
    /\ ip_networks = << [family |-> "V4", prefix |-> 32] >>
    /\ retry_count = 0
    /\ timeout_ms = 0
    /\ randomize_targets = FALSE
    /\ pc = "output"
    /\ network_size = 1
    /\ interval_ms = 0
    /\ handler_set = TRUE
    /\ has_reached_timeout = FALSE
    /\ timed_out = TRUE
    /\ pass = 0
    /\ passes_started = 0
    /\ ip_addresses = << >>
    /\ ip_address = NoItem
    /\ total_sent = 0
    /\ sent_to = [t \in Targets(ip_networks) |-> 0]
    /\ sleep_ms_mount = 0
    /\ output = NoOutput
    /\ cpc = "returned"
    /\ packet_count \in 0..MaxPackets
    /\ arp_count \in 0..packet_count
    /\ target_details \in ExportDetailLists
    /\ start_recording = 0
    /\ duration_ms \in {0, WaitIncrement}
    /\ clock = duration_ms
    /\ last_send_at = -1
    /\ pacing_sleeps = 0
    /\ send_ended_at = 0
    /\ at_interrupt = NoInterrupt

\* OutputFormat::Json => println!("{}", utils::export_to_json(..))
ExportToJson ==
    /\ pc = "output"
    /\ pc' = "done"
    /\ output' = export_to_json(ResponseSummary, target_details)
    /\ UNCHANGED scanState

\* OutputFormat::Yaml => println!("{}", utils::export_to_yaml(..))
ExportToYaml ==
    /\ pc = "output"
    /\ pc' = "done"
    /\ output' = export_to_yaml(ResponseSummary, target_details)
    /\ UNCHANGED scanState

\* OutputFormat::Csv => print!("{}", utils::export_to_csv(..))
ExportToCsv ==
    /\ pc = "output"
    /\ pc' = "done"
    /\ output' = export_to_csv(ResponseSummary, target_details)
    /\ UNCHANGED scanState

NextExport == ExportToJson \/ ExportToYaml \/ ExportToCsv

ExportSpec == InitExport /\ [][NextExport]_vars

Terminated == pc \in {"done", "exit_failure"}

(* ------------------------- phases of a scan ---------------------------- *)

SendPhase == {"outer", "next", "check", "send", "sleep"}

WaitPhase == {"wait", "wait_sleep", "store"}

AfterStop == {"join", "output", "done"}

\* Every pass was begun and every target was sent one frame in each.
AllPassesFinished ==
    /\ passes_started = retry_count
    /\ \A t \in Targets(ip_networks) : sent_to[t] = retry_count

\* No interrupt was taken before the send phase ended.
NotInterruptedInSend ==
    ~has_reached_timeout \/ at_interrupt.pc \in WaitPhase \cup AfterStop

\* No interrupt was taken before the stop signal was set.
NotInterruptedBeforeStop ==
    ~has_reached_timeout \/ at_interrupt.pc \in AfterStop

\* The interrupt flag was set during the send phase or the wait phase.
InterruptedInScan ==
    has_reached_timeout /\ at_interrupt.pc \in SendPhase \cup WaitPhase

(* ------------------------------ claims --------------------------------- *)

\* C1: the stop signal timed_out is stored true only once the send phase
\* has ended (every pass finished, or the interrupt flag set) and the wait
\* phase has ended (accumulated wait >= timeout_ms, or the interrupt flag
\* set); once the stop signal is set the coordinator sends no frame.
C1_StopAfterSendAndWait ==
    [][ /\ (~timed_out /\ timed_out') =>
              /\ pc = "store"
              /\ send_ended_at # -1
              /\ AllPassesFinished \/ has_reached_timeout
              /\ sleep_ms_mount >= timeout_ms \/ has_reached_timeout
        /\ timed_out => total_sent' = total_sent /\ sent_to' = sent_to
      ]_vars

C1_Witness ==
    /\ timed_out
    /\ ~has_reached_timeout
    /\ total_sent > 0
    /\ timeout_ms > 0
    /\ sleep_ms_mount >= timeout_ms

\* C2: a send happens only at the step that follows a load of the interrupt
\* flag which returned false; so once the handler has set the flag at most
\* one further frame is sent, the one whose check preceded the store, and no
\* new pass is started.
C2_InterruptCheckedBeforeSend ==
    /\ [](has_reached_timeout =>
            /\ total_sent <= at_interrupt.sent + 1
            /\ total_sent = at_interrupt.sent + 1 => at_interrupt.pc = "send"
            /\ passes_started = at_interrupt.passes)
    /\ [][ /\ (pc' = "send" /\ pc # "send") =>
                (pc = "check" /\ ~has_reached_timeout)
           /\ total_sent' # total_sent =>
                (pc = "send" /\ total_sent' = total_sent + 1)
         ]_vars

C2_Witness ==
    /\ has_reached_timeout
    /\ total_sent = at_interrupt.sent + 1
    /\ ip_addresses # << >>
    /\ pc \in WaitPhase

\* C3: in a scan that is not interrupted during the send phase, when the
\* send phase has ended exactly retry_count passes were made, every target
\* address was sent one frame per pass and total_sent = retry_count x
\* network_size, network_size being the number of addresses of the ranges;
\* in every execution total_sent <= retry_count x network_size.
C3_TotalSent ==
    /\ total_sent <= retry_count * network_size
    /\ (pc \in WaitPhase \cup AfterStop /\ NotInterruptedInSend) =>
          /\ passes_started = retry_count
          /\ \A t \in Targets(ip_networks) : sent_to[t] = retry_count
          /\ network_size = Cardinality(Targets(ip_networks))
          /\ total_sent = retry_count * network_size

C3_Witness ==
    /\ pc = "wait"
    /\ ~has_reached_timeout
    /\ Len(ip_networks) = 2
    /\ retry_count = 2
    /\ total_sent = 6

\* C4: every scan terminates; once the send phase is entered the
\* coordinator eventually sets the stop signal; once the stop signal is set
\* the collector thread eventually ends; once it has returned the join
\* completes and the results are output.
C4_ScanTerminates ==
    /\ <>Terminated
    /\ [](pc \in SendPhase => <>timed_out)
    /\ [](timed_out => <>(cpc \in {"returned", "panicked"}))
    /\ [](cpc = "returned" => <>(pc = "done" /\ output.format \in OutputFormat))

C4_Witness ==
    /\ pc = "done"
    /\ output.format \in OutputFormat
    /\ cpc = "returned"
    /\ timed_out
    /\ ~has_reached_timeout
    /\ total_sent > 1
    /\ sleep_ms_mount = WaitIncrement * MaxWaits

\* C5: after the interrupt flag is set during the send phase or the wait
\* phase the coordinator starts no further pass, makes at most one more
\* wait increment, takes a failure exit only if the collector thread
\* panicked, eventually sets the stop signal, and, unless the collector
\* thread panics, eventually emits the collected results as they are.
C5_InterruptIsNormalTermination ==
    /\ [](InterruptedInScan =>
            /\ passes_started = at_interrupt.passes
            /\ sleep_ms_mount <= at_interrupt.waits + WaitIncrement
            /\ pc = "exit_failure" => (timed_out /\ cpc = "panicked")
            /\ pc = "done" =>
                 /\ output.format \in OutputFormat
                 /\ output.packet_count = packet_count
                 /\ output.arp_count = arp_count
                 /\ output.duration_ms = duration_ms
                 /\ output.target_details = target_details)
    /\ [](InterruptedInScan => <>timed_out)
    /\ [](InterruptedInScan => <>(pc = "done" \/ cpc = "panicked"))

C5_Witness ==
    /\ InterruptedInScan
    /\ at_interrupt.pc = "wait_sleep"
    /\ at_interrupt.waits = 0
    /\ sleep_ms_mount = WaitIncrement
    /\ timeout_ms > WaitIncrement
    /\ pc = "done"
    /\ packet_count > 0

\* C6: in a scan not interrupted before the stop signal is set, the wait
\* loop makes exactly ceil(timeout_ms / 100) increments of 100 ms (none for
\* a timeout of 0), so at least timeout_ms elapse between the end of the
\* send phase and the stop signal, and the duration the collector reports
\* is at least timeout_ms.
C6_WaitsAtLeastTimeout ==
    (timed_out /\ NotInterruptedBeforeStop) =>
        /\ sleep_ms_mount = WaitIncrement * CeilDiv(timeout_ms, WaitIncrement)
        /\ sleep_ms_mount >= timeout_ms
        /\ timeout_ms = 0 => sleep_ms_mount = 0
        /\ clock - send_ended_at >= timeout_ms
        /\ cpc = "returned" => duration_ms >= timeout_ms

C6_Witness ==
    /\ timed_out
    /\ ~has_reached_timeout
    /\ timeout_ms = WaitIncrement * MaxWaits - 99
    /\ sleep_ms_mount = WaitIncrement * MaxWaits
    /\ cpc = "returned"

\* C7: once the collector thread has panicked no scan result is ever
\* output and the process never ends normally; the join fails and the
\* process ends with the failure exit.
C7_CollectorPanicIsFatal ==
    /\ [](cpc = "panicked" =>
            /\ output = NoOutput
            /\ pc \notin {"output", "done"})
    /\ [](cpc = "panicked" => <>(pc = "exit_failure"))

C7_Witness ==
    /\ cpc = "panicked"
    /\ pc = "exit_failure"
    /\ timed_out
    /\ packet_count > 0

\* C8: when one of the target ranges is an IPv6 network the coordinator
\* never gets past compute_network_size, where it takes the failure exit:
\* no frame is sent, no pass is begun, no range is scanned.
C8_V6RangeAborts ==
    HasV6(ip_networks) =>
        /\ pc \in {"channel", "spawn", "size", "exit_failure"}
        /\ total_sent = 0
        /\ passes_started = 0
        /\ output = NoOutput

C8_Witness ==
    /\ Len(ip_networks) = 2
    /\ ip_networks[1].family = "V4"
    /\ ip_networks[2].family = "V6"
    /\ cpc # "unspawned"
    /\ pc = "exit_failure"

\* C9: the stop signal starts false and changes only in the coordinator's
\* store step, from false to true: it never goes back to false, and no step
\* of the collector or of the interrupt handler changes it.
C9_StopSignalOneShot ==
    /\ ~timed_out
    /\ [][ timed_out' # timed_out =>
             /\ ~timed_out
             /\ timed_out'
             /\ pc = "store"
             /\ pc' = "join"
             /\ UNCHANGED << collector, has_reached_timeout, at_interrupt >>
         ]_vars

C9_Witness ==
    /\ timed_out
    /\ has_reached_timeout
    /\ cpc = "read"
    /\ pc = "join"

\* C10: a pacing sleep is taken only right after a send and lasts
\* interval_ms; every send but the first is preceded by exactly one pacing
\* sleep since the send before it, within a pass and across two passes, and
\* so is every check of the interrupt flag that follows a send.
C10_OneSleepBetweenSends ==
    /\ [][ /\ total_sent' # total_sent =>
                (total_sent > 0 =>
                    /\ pacing_sleeps = 1
                    /\ clock - last_send_at >= interval_ms)
           /\ pacing_sleeps' = pacing_sleeps + 1 =>
                /\ pc = "sleep"
                /\ pacing_sleeps = 0
                /\ last_send_at = clock
                /\ clock' = clock + interval_ms
         ]_vars
    /\ []((pc \in {"check", "send"} /\ total_sent > 0) => pacing_sleeps = 1)

C10_Witness ==
    /\ passes_started = 2
    /\ total_sent = network_size + 1
    /\ network_size > 1
    /\ pacing_sleeps = 0
    /\ pc = "sleep"
    /\ interval_ms > 0

(* ----------------------- reading an export back ------------------------ *)

\* The host entries of an export, in the order they appear in it.
HostEntries(export) ==
    IF export.format = "Csv"
    THEN [i \in 1..(Len(export.records) - 1) |->
            [ipv4 |-> export.records[i + 1][1],
             mac |-> export.records[i + 1][2],
             hostname |-> export.records[i + 1][3],
             vendor |-> export.records[i + 1][4]]]
    ELSE LET items == export.document[4][2]
         IN  [i \in 1..Len(items) |->
                [ipv4 |-> items[i][1][2], mac |-> items[i][2][2],
                 hostname |-> items[i][3][2], vendor |-> items[i][4][2]]]

\* The fields an export holds beside its host entries.
SummaryFields(export) ==
    IF export.format = "Csv" THEN { }
    ELSE { export.document[i] : i \in 1..3 }

\* The address a dotted decimal text denotes.
ParseIpv4(text) == CHOOSE ipv4 \in ExportIpv4Addrs : FormatIpv4(ipv4) = text

Export(format, response_summary, details) ==
    CASE format = "Json" -> export_to_json(response_summary, details)
      [] format = "Yaml" -> export_to_yaml(response_summary, details)
      [] format = "Csv" -> export_to_csv(response_summary, details)

Reorderings(details) ==
    { [i \in 1..Len(details) |-> details[p[i]]] :
        p \in Permutations(1..Len(details)) }

\* C11: the host entries of a JSON, YAML or CSV export are the hosts of the
\* input list, each once, in non-decreasing order of their IPv4 addresses,
\* and the export of the same data given in any other order is the same.
C11_ExportSortedByIpv4 ==
    pc = "done" =>
        LET entries == HostEntries(output)
        IN  /\ Len(entries) = Len(target_details)
            /\ { entries[i].ipv4 : i \in 1..Len(entries) }
                 = { FormatIpv4(target_details[i].ipv4) :
                       i \in 1..Len(target_details) }
            /\ \A i \in 1..(Len(entries) - 1) :
                 Ipv4Leq(ParseIpv4(entries[i].ipv4),
                         ParseIpv4(entries[i + 1].ipv4))
            /\ \A other \in Reorderings(target_details) :
                 Export(output.format, ResponseSummary, other) = output

C11_Witness ==
    /\ pc = "done"
    /\ output.format = "Csv"
    /\ Len(target_details) = 2
    /\ target_details[1].ipv4 = << 10, 0, 0, 10 >>
    /\ target_details[2].ipv4 = << 9, 0, 1, 200 >>
    /\ output.records[2][1] = "9.0.1.200"

\* C12: every export, JSON, YAML and CSV, holds for each host its IPv4
\* address, hardware address, hostname and vendor, and holds the counters
\* packet_count, arp_count and duration_ms of the ResponseSummary.
C12_EveryFormatCarriesFullLayout ==
    pc = "done" =>
        /\ \A i \in 1..Len(target_details) :
             \E j \in 1..Len(HostEntries(output)) :
                HostEntries(output)[j] =
                    [ipv4 |-> FormatIpv4(target_details[i].ipv4),
                     mac |-> FormatMac(target_details[i].mac),
                     hostname |-> OrEmpty(target_details[i].hostname),
                     vendor |-> OrEmpty(target_details[i].vendor)]
        /\ { << "packet_count", Decimal(packet_count) >>,
             << "arp_count", Decimal(arp_count) >>,
             << "duration_ms", Decimal(duration_ms) >> }
             \subseteq SummaryFields(output)

\* C13: no frame is sent, and the send phase is not entered, before the
\* collector thread has been spawned.
C13_CollectorSpawnedBeforeSend ==
    /\ [][total_sent' # total_sent => cpc # "unspawned"]_vars
    /\ []((total_sent > 0 \/ pc \in SendPhase) => cpc # "unspawned")

C13_Witness ==
    /\ total_sent = 1
    /\ pc = "sleep"
    /\ cpc = "read"
    /\ ~timed_out

\* C14: the counters and the list of hosts change only in steps of the
\* running collector thread; the coordinator is at the output or past it,
\* and a result is output, only when the collector has returned and the stop
\* signal is set, and the result output is the one the collector returned.
C14_ResultReadAfterJoin ==
    /\ [][ << packet_count, arp_count, target_details, duration_ms >>'
              # << packet_count, arp_count, target_details, duration_ms >>
           => (cpc \in {"loop", "read"} /\ pc' = pc /\ output' = output) ]_vars
    /\ []((pc \in {"output", "done"} \/ output # NoOutput) =>
            (cpc = "returned" /\ timed_out))
    /\ [](output # NoOutput =>
            /\ pc = "done"
            /\ output.packet_count = packet_count
            /\ output.arp_count = arp_count
            /\ output.target_details = target_details)

C14_Witness ==
    /\ pc = "done"
    /\ output.format = "Json"
    /\ output.target_details # << >>
    /\ cpc = "returned"
    /\ timed_out

====
